---- MODULE Spec2Model ----
(***************************************************************************)
(* A state-machine model of conda/misc.py: the explicit installer          *)
(* (explicit), the file reconciliation functions (conda_installed_files,   *)
(* walk_prefix, untracked), the membership resolvers (which_prefix,        *)
(* which_package) and the environment cloner (clone_env).  The             *)
(* collaborators misc.py imports                                           *)
(* (conda.install, conda.fetch, conda.plan, conda.config, os.path) are     *)
(* modelled at their interface.                                            *)
(***************************************************************************)
EXTENDS Integers, Sequences, FiniteSets, TLC

VARIABLES
  \* ---- explicit(): inputs and environment
  specs,          \* the specification lines given to explicit()
  fileUrlIsCache, \* whether the file:// collection is the package cache directory
  prefixLinked,   \* distributions linked in the target prefix (install.linked)
  cache,          \* package cache: dist -> md5 of the cached archive, or Absent
  extracted,      \* distributions with an extracted copy in the cache
  \* ---- explicit(): locals
  pc,             \* position in explicit(): idle, loop, exec, done, aborted
  run,            \* 1 for the first call of explicit(), 2 for the repeated call
  i,              \* index of the specification line the loop is at
  linked,         \* the dict built at line 45: base name -> linked dist (or NoDist)
  index,          \* the index dict of line 46: key -> md5 of the info (None when
                  \* the info has no md5 field), or Absent without an entry
  schannel,       \* the local variable schannel (Unbound until line 69 runs)
  schannelLine,   \* the line whose URL schannel was derived from
  actions,        \* the action plan (defaultdict of line 42)
  warned,         \* lines for which the MD5 warning of line 90 was written
  err,            \* the message of the fatal exit, or NoError
  errLine,        \* the line at which the run exited
  fetches,        \* the calls of fetch_index made so far in this run
  \* ---- execute_actions(): position and trace
  ek, ej,         \* kind index into op_order, position in that kind's list
  execLog,        \* the operations applied so far in this run, in order
  linked0,        \* prefixLinked when the current run started
  linkedAfter1,   \* prefixLinked when the first run had finished
  plan1,          \* the plan of the first run
  \* ---- the environment the reconciliation functions look at
  platform,       \* sys.platform
  treeA,          \* the directory tree under the prefix: relative path -> node
  linkedA,        \* distributions linked in the prefix (install.linked)
  meta,           \* install.is_linked: dist -> [files, file_hash]
  \* ---- results of the reconciliation functions
  walkRes,        \* what walk_prefix(prefix) returned
  installedRes,   \* what conda_installed_files(prefix, flag) returned
  untrackedRes,   \* what untracked(prefix, flag) returned
  \* ---- clone_env(prefix1, prefix2)
  unreadable,     \* files of prefix1 whose open() raises IOError
  treeB,          \* the directory tree under prefix2
  linkedB,        \* distributions linked in prefix2
  clPc,           \* position in clone_env
  untracked_files,\* the local untracked_files (line 225)
  dists,          \* the local dists (line 226)
  copied,         \* untracked files the loop of line 232 has been through
  skipped,        \* files the loop skipped at line 248
  clActions,      \* the plan of line 267
  clReturn,       \* the value returned at line 270
  \* ---- which_prefix(path)
  wpCwd,          \* the current directory (abspath)
  wpDirs,         \* the directories that exist, as absolute paths
  wpPath,         \* the argument path
  wpPc,           \* position in which_prefix
  wpPrefix,       \* the local prefix
  wpResult,       \* the value returned
  \* ---- which_package(path)
  wkArg,          \* the argument path
  wkPc,           \* position in which_package
  wkPath,         \* the local path after line 185
  wkTodo,         \* what is left of the iteration over install.linked(prefix)
  wkYielded,      \* the distributions yielded so far, in order
  wkErr           \* the exception raised, or NoError

explicitVars == <<specs, fileUrlIsCache, prefixLinked, cache, extracted, pc, run, i,
                  linked, index, schannel, schannelLine, actions, warned, err,
                  errLine, fetches, ek, ej, execLog, linked0, linkedAfter1, plan1>>

fileVars == <<platform, treeA, linkedA, meta, walkRes, installedRes, untrackedRes>>

cloneVars == <<unreadable, treeB, linkedB, clPc, untracked_files, dists, copied,
               skipped, clActions, clReturn>>

wkLocals == <<wkArg, wkPc, wkPath, wkTodo, wkYielded, wkErr>>

whichVars == <<wpCwd, wpDirs, wpPath, wpPc, wpPrefix, wpResult, wkLocals>>

notExplicit == <<fileVars, cloneVars, whichVars>>

vars == <<explicitVars, fileVars, cloneVars, whichVars>>

----------------------------------------------------------------------------
(* Bounds *)
MaxSpecs == 2          \* longest sequence of specification lines

----------------------------------------------------------------------------
(* Values *)
None    == "None"
Absent  == "absent"
NoMd5   == ""            \* spec.partition(':#') leaves md5 empty without ':#'
Unbound == "<unbound>"   \* a local variable that was never assigned
NoError == "no error"

RM_FETCHED   == "RM_FETCHED"
FETCH        == "FETCH"
RM_EXTRACTED == "RM_EXTRACTED"
EXTRACT      == "EXTRACT"
UNLINK       == "UNLINK"
LINK         == "LINK"
Kinds == {RM_FETCHED, FETCH, RM_EXTRACTED, EXTRACT, UNLINK, LINK}

\* actions['op_order'] with the link step moved before the unlink step
op_order_link_first == <<RM_FETCHED, FETCH, RM_EXTRACTED, EXTRACT, LINK, UNLINK>>

\* actions['op_order'] of explicit()
op_order == <<RM_FETCHED, FETCH, RM_EXTRACTED, EXTRACT, UNLINK, LINK>>

----------------------------------------------------------------------------
(* The world explicit() runs in: collections, their labels and indexes *)
UrlDefaults == "https://repo.continuum.io/pkgs/free/linux-64"
UrlChan     == "https://conda.anaconda.org/ch/linux-64"
UrlFile     == "file:///opt/pkgs"
LocalDir    == "/opt/pkgs"
Urls        == {UrlDefaults, UrlChan, UrlFile}

Names     == {"foo", "bar"}
Versions  == {"1.0", "2.0"}
Prefixes  == {"", "ch::", "local::"}
Dists     == [prefix : Prefixes, name : Names, ver : Versions]
Md5s      == {"a", "b"}

Dist(p, n, v) == [prefix |-> p, name |-> n, ver |-> v]

\* None where a distribution is expected
NoDist == Dist("", "", "")

\* config.is_url
is_url(loc) == loc \in Urls

\* utils.url_path: a local path as a file URL
url_path(loc) == IF loc = LocalDir THEN UrlFile ELSE loc

\* url_p.startswith('file://')
IsFileUrl(url_p) == url_p = UrlFile

\* config.url_channel: the short channel label of a collection URL
url_channel(url_p) ==
  CASE url_p = UrlDefaults -> "defaults"
    [] url_p = UrlChan     -> "ch"
    [] OTHER               -> "local"

\* install.name_dist: the base name of a distribution
name_dist(dist) == dist.name

\* the repodata a collection serves: the set of [name, ver, md5] it lists
Repodata(url_p) ==
  CASE url_p = UrlDefaults ->
         { [name |-> "foo", ver |-> "1.0", md5 |-> "a"],
           [name |-> "foo", ver |-> "2.0", md5 |-> "a"],
           [name |-> "bar", ver |-> "1.0", md5 |-> "a"] }
    [] url_p = UrlChan ->
         { [name |-> "foo", ver |-> "1.0", md5 |-> None] }
    [] OTHER ->
         { [name |-> "foo", ver |-> "1.0", md5 |-> "a"] }

\* the md5 of the archive a fetch downloads
ArchiveMd5 == "a"

----------------------------------------------------------------------------
(* Specification lines *)
Marker == [marker |-> TRUE, loc |-> UrlDefaults, name |-> "foo", ver |-> "1.0",
           tarbz2 |-> TRUE, isfile |-> FALSE, md5 |-> NoMd5]

PkgLine(loc, n, v, m) == [marker |-> FALSE, loc |-> loc, name |-> n, ver |-> v,
                          tarbz2 |-> TRUE, isfile |-> TRUE, md5 |-> m]

SpecLines ==
  { Marker,
    [PkgLine(UrlDefaults, "foo", "1.0", NoMd5) EXCEPT !.tarbz2 = FALSE],
    [PkgLine(LocalDir, "bar", "1.0", NoMd5) EXCEPT !.isfile = FALSE],
    PkgLine(UrlDefaults, "foo", "1.0", NoMd5),
    PkgLine(UrlDefaults, "foo", "1.0", "a"),
    PkgLine(UrlDefaults, "foo", "2.0", "b"),
    PkgLine(UrlDefaults, "bar", "1.0", NoMd5),
    PkgLine(UrlChan, "foo", "1.0", "a"),
    PkgLine(UrlFile, "foo", "1.0", "a"),
    PkgLine(LocalDir, "foo", "2.0", NoMd5) }

SpecSeqs == UNION { [1..n -> SpecLines] : n \in 0..MaxSpecs }

\* prefixes the run may start from: at most one distribution per base name
LinkedChoices ==
  { {}, {Dist("", "foo", "1.0")}, {Dist("", "foo", "2.0")},
    {Dist("ch::", "foo", "1.0"), Dist("", "bar", "1.0")} }

EmptyCache == [d \in Dists |-> Absent]

\* package caches the run may start from: one archive per file name at most
CacheChoices ==
  { EmptyCache,
    [EmptyCache EXCEPT ![Dist("", "foo", "1.0")] = "a"],
    [EmptyCache EXCEPT ![Dist("", "foo", "1.0")] = "b"],
    [EmptyCache EXCEPT ![Dist("ch::", "foo", "1.0")] = "a"],
    [EmptyCache EXCEPT ![Dist("local::", "foo", "2.0")] = "a",
                       ![Dist("", "bar", "1.0")] = "a"] }

EmptyActions ==
  [op_order |-> op_order, RM_FETCHED |-> <<>>, FETCH |-> <<>>, RM_EXTRACTED |-> <<>>,
   EXTRACT |-> <<>>, UNLINK |-> <<>>, LINK |-> <<>>]

EmptyIndex == [k \in Dists |-> Absent]

----------------------------------------------------------------------------
(* Collaborators of explicit(), at their interface *)

SameFile(d, e) == d.name = e.name /\ d.ver = e.ver

\* the archive occupying the cache slot of a file name, if any
Occupants(n, v) == { d \in Dists : d.name = n /\ d.ver = v /\ cache[d] # Absent }

\* install.cached_url: the cache's channel prefix for a URL of the cache directory
cached_url(s) ==
  IF IsFileUrl(url_path(s.loc)) /\ fileUrlIsCache /\ Occupants(s.name, s.ver) # {}
  THEN (CHOOSE d \in Occupants(s.name, s.ver) : TRUE).prefix
  ELSE None

\* install.is_fetched: the cached archive of a distribution (its md5), or None
is_fetched(dist) == IF cache[dist] = Absent THEN None ELSE cache[dist]

\* install.find_new_location: the cached package in the way of dist, or None
find_new_location(dist) ==
  IF cache[dist] # Absent \/ Occupants(dist.name, dist.ver) = {}
  THEN NoDist
  ELSE CHOOSE d \in Occupants(dist.name, dist.ver) : TRUE

\* fetch.fetch_index({url_p + '/': (schan, 0)}, index=idx)
fetch_index(url_p, schan, idx) ==
  LET pre == IF schan = "defaults" THEN "" ELSE schan \o "::"
  IN  [k \in Dists |->
         IF k.prefix = pre /\ \E e \in Repodata(url_p) : e.name = k.name /\ e.ver = k.ver
         THEN (CHOOSE e \in Repodata(url_p) : e.name = k.name /\ e.ver = k.ver).md5
         ELSE idx[k]]

----------------------------------------------------------------------------
(* explicit(): what one iteration of the loop of lines 48-105 computes *)

Push(acts, kind, dist) == [acts EXCEPT ![kind] = Append(@, dist)]

\* lines 53-60: the URL of the line, split into collection URL and file name
UrlP(s) == IF is_url(s.loc) THEN s.loc ELSE url_path(s.loc)

\* lines 63-66: whether the channel prefix comes from the package cache
PrefixFromCache(s) == IsFileUrl(UrlP(s)) /\ cached_url(s) # None

\* lines 68-70: the local variable prefix after line 70
LabelPrefix(s) ==
  IF PrefixFromCache(s) THEN cached_url(s)
  ELSE IF url_channel(UrlP(s)) = "defaults" THEN "" ELSE url_channel(UrlP(s)) \o "::"

\* lines 71-72: fn = prefix + fn, dist = fn[:-8]
LineDist(s) == Dist(LabelPrefix(s), s.name, s.ver)

\* line 69 assigns schannel only when the prefix did not come from the cache
SchannelAfter(s) == IF PrefixFromCache(s) THEN schannel ELSE url_channel(UrlP(s))
SchannelLineAfter(s) == IF PrefixFromCache(s) THEN schannelLine ELSE i

\* line 77: a cached archive whose md5 differs from the supplied one
Stale(s) ==
  /\ is_fetched(LineDist(s)) # None
  /\ s.md5 # NoMd5
  /\ is_fetched(LineDist(s)) # s.md5

\* lines 77-79: the plan after the stale archive was scheduled for removal
ActionsAfterStale(s) ==
  IF Stale(s) THEN Push(actions, RM_FETCHED, LineDist(s)) ELSE actions

\* line 82 without line 79: only an archive missing from the cache is fetched
NeedsFetchUncachedOnly(s) == is_fetched(LineDist(s)) = None

\* line 82: pkg_path is None
NeedsFetch(s) == is_fetched(LineDist(s)) = None \/ Stale(s)

\* line 83: fn not in index
CallsFetchIndex(s) == index[LineDist(s)] = Absent

\* lines 83-84: the index after the (lazy) fetch of the collection's index
IndexAfter(s) ==
  IF CallsFetchIndex(s) THEN fetch_index(UrlP(s), SchannelAfter(s), index) ELSE index

FetchesAfter(s) ==
  IF CallsFetchIndex(s)
  THEN Append(fetches, [line |-> i, url |-> UrlP(s), schannel |-> SchannelAfter(s),
                        from |-> SchannelLineAfter(s)])
  ELSE fetches

\* line 85: info = index.get(fn)
InfoOf(s) == IndexAfter(s)[LineDist(s)]

\* lines 88-90 without the warning
WarnedAfterSilent(s) == warned

\* lines 88-90: the warning written when the index entry has no md5 field
WarnedAfter(s) ==
  IF s.md5 # NoMd5 /\ InfoOf(s) = None THEN warned \cup {i} ELSE warned

\* lines 93-96: the conflicting archive is removed, the archive is fetched
ScheduleFetch(acts, dist) ==
  LET conflict == find_new_location(dist)
      a1 == IF conflict # NoDist THEN Push(acts, RM_FETCHED, conflict) ELSE acts
  IN  Push(a1, FETCH, dist)

\* lines 98-105 with the link appended only when nothing was linked under the name
ScheduleInstallElse(acts, dist) ==
  LET a1 == Push(Push(acts, RM_EXTRACTED, dist), EXTRACT, dist)
  IN  IF linked[name_dist(dist)] # NoDist
      THEN Push(a1, UNLINK, linked[name_dist(dist)])
      ELSE Push(a1, LINK, dist)

\* lines 98-105 with the new distribution unlinked in place of the linked one
ScheduleInstallUnlinkSelf(acts, dist) ==
  LET a1 == Push(Push(acts, RM_EXTRACTED, dist), EXTRACT, dist)
      a2 == IF linked[name_dist(dist)] # NoDist THEN Push(a1, UNLINK, dist) ELSE a1
  IN  Push(a2, LINK, dist)

\* lines 98-105: remove the extracted copy, extract, unlink what is linked
\* under the same base name, link
ScheduleInstall(acts, dist) ==
  LET a1 == Push(Push(acts, RM_EXTRACTED, dist), EXTRACT, dist)
      a2 == IF linked[name_dist(dist)] # NoDist
            THEN Push(a1, UNLINK, linked[name_dist(dist)])
            ELSE a1
  IN  Push(a2, LINK, dist)

\* sys.exit that only records the message and goes on with the next line
SysExitContinues(msg) ==
  /\ pc' = pc
  /\ err' = msg
  /\ errLine' = i
  /\ i' = i + 1

\* sys.exit(msg): the run ends here, execute_actions is not reached
SysExit(msg) ==
  /\ pc' = "aborted"
  /\ err' = msg
  /\ errLine' = i
  /\ i' = i

\* the dicts line 45 can build from the linked distributions of the prefix
LinkedDicts(installed) ==
  { f \in [Names -> installed \cup {NoDist}] :
      \A n \in Names :
        IF \E d \in installed : name_dist(d) = n
        THEN f[n] # NoDist /\ name_dist(f[n]) = n
        ELSE f[n] = NoDist }

----------------------------------------------------------------------------
(* explicit(): the actions *)

locals == <<linked, index, schannel, schannelLine, actions, warned, fetches>>
env == <<specs, fileUrlIsCache, prefixLinked, cache, extracted>>
exec == <<ek, ej, execLog>>
history == <<linked0, linkedAfter1, plan1, run>>

AtLine == pc = "loop" /\ i <= Len(specs)

\* lines 42-47: the caller invokes explicit(specs, prefix)
ExplicitBegin ==
  /\ pc = "idle"
  /\ pc' = "loop"
  /\ i' = 1
  /\ actions' = EmptyActions
  /\ linked' \in LinkedDicts(prefixLinked)
  /\ index' = EmptyIndex
  /\ schannel' = Unbound
  /\ schannelLine' = 0
  /\ warned' = {}
  /\ fetches' = <<>>
  /\ err' = NoError
  /\ errLine' = 0
  /\ execLog' = <<>>
  /\ ek' = 1 /\ ej' = 1
  /\ linked0' = prefixLinked
  /\ UNCHANGED <<env, linkedAfter1, plan1, run>>
  /\ UNCHANGED notExplicit

\* lines 49-50: the '@EXPLICIT' header is skipped
SkipExplicitMarker ==
  /\ AtLine
  /\ specs[i].marker
  /\ i' = i + 1
  /\ UNCHANGED <<pc, err, errLine, locals, env, exec, history>>
  /\ UNCHANGED notExplicit

\* lines 54-55: the location does not end in '.tar.bz2'
ExitCouldNotParse ==
  /\ AtLine
  /\ ~specs[i].marker
  /\ ~specs[i].tarbz2
  /\ SysExit("Error: Could not parse")
  /\ UNCHANGED <<locals, env, exec, history>>
  /\ UNCHANGED notExplicit

\* lines 56-58: a local path that is not a file
ExitFileNotFound ==
  /\ AtLine
  /\ ~specs[i].marker
  /\ specs[i].tarbz2
  /\ ~is_url(specs[i].loc)
  /\ ~specs[i].isfile
  /\ SysExit("Error: file not found")
  /\ UNCHANGED <<locals, env, exec, history>>
  /\ UNCHANGED notExplicit

\* lines 53-59 passed: the line names an archive that can be looked at
Parsed(s) ==
  /\ ~s.marker
  /\ s.tarbz2
  /\ is_url(s.loc) \/ s.isfile

\* lines 60-79 and 98-105: a validly cached archive, nothing to fetch
LineCached ==
  /\ AtLine
  /\ LET s == specs[i] IN
       /\ Parsed(s)
       /\ ~NeedsFetch(s)
       /\ schannel' = SchannelAfter(s)
       /\ schannelLine' = SchannelLineAfter(s)
       /\ actions' = ScheduleInstall(ActionsAfterStale(s), LineDist(s))
  /\ i' = i + 1
  /\ UNCHANGED <<pc, err, errLine, linked, index, warned, fetches, env, exec, history>>
  /\ UNCHANGED notExplicit

\* line 84: schannel is read before any line assigned it
RaiseNameError ==
  /\ AtLine
  /\ LET s == specs[i] IN
       /\ Parsed(s)
       /\ NeedsFetch(s)
       /\ CallsFetchIndex(s)
       /\ SchannelAfter(s) = Unbound
       /\ actions' = ActionsAfterStale(s)
  /\ pc' = "aborted"
  /\ err' = "NameError: schannel"
  /\ errLine' = i
  /\ UNCHANGED <<i, linked, index, schannel, schannelLine, warned, fetches, env, exec,
                 history>>
  /\ UNCHANGED notExplicit

\* lines 82-85 passed: the index was consulted (fetched when it lacked fn)
Looked(s) ==
  /\ Parsed(s)
  /\ NeedsFetch(s)
  /\ CallsFetchIndex(s) => SchannelAfter(s) # Unbound

\* lines 86-87: the index has no entry for fn
ExitNoPackage ==
  /\ AtLine
  /\ LET s == specs[i] IN
       /\ Looked(s)
       /\ InfoOf(s) = Absent
       /\ schannel' = SchannelAfter(s)
       /\ schannelLine' = SchannelLineAfter(s)
       /\ actions' = ActionsAfterStale(s)
       /\ index' = IndexAfter(s)
       /\ fetches' = FetchesAfter(s)
  /\ SysExit("Error: no package in index")
  /\ UNCHANGED <<linked, warned, env, exec, history>>
  /\ UNCHANGED notExplicit

\* lines 88, 91-92: the index entry has another md5 than the line
ExitMd5Mismatch ==
  /\ AtLine
  /\ LET s == specs[i] IN
       /\ Looked(s)
       /\ InfoOf(s) # Absent
       /\ s.md5 # NoMd5
       /\ InfoOf(s) # None
       /\ InfoOf(s) # s.md5
       /\ schannel' = SchannelAfter(s)
       /\ schannelLine' = SchannelLineAfter(s)
       /\ actions' = ActionsAfterStale(s)
       /\ index' = IndexAfter(s)
       /\ fetches' = FetchesAfter(s)
  /\ SysExit("Error: MD5 in explicit files does not match index")
  /\ UNCHANGED <<linked, warned, env, exec, history>>
  /\ UNCHANGED notExplicit

\* lines 60-105: the archive is not validly cached and the index accepts it
LineFetch ==
  /\ AtLine
  /\ LET s == specs[i] IN
       /\ Looked(s)
       /\ InfoOf(s) # Absent
       /\ s.md5 # NoMd5 => (InfoOf(s) = None \/ InfoOf(s) = s.md5)
       /\ schannel' = SchannelAfter(s)
       /\ schannelLine' = SchannelLineAfter(s)
       /\ index' = IndexAfter(s)
       /\ fetches' = FetchesAfter(s)
       /\ warned' = WarnedAfter(s)
       /\ actions' = ScheduleInstall(ScheduleFetch(ActionsAfterStale(s), LineDist(s)),
                                     LineDist(s))
  /\ i' = i + 1
  /\ UNCHANGED <<pc, err, errLine, linked, env, exec, history>>
  /\ UNCHANGED notExplicit

\* execute_actions called from inside the loop, with the plan built so far
ExecuteActionsEarly ==
  /\ pc = "loop"
  /\ i > 1
  /\ pc' = "exec"
  /\ ek' = 1 /\ ej' = 1
  /\ UNCHANGED <<i, err, errLine, execLog, locals, env, history>>
  /\ UNCHANGED notExplicit

\* line 107: the loop is over, the plan is handed to execute_actions
ExecuteActions ==
  /\ pc = "loop"
  /\ i > Len(specs)
  /\ pc' = "exec"
  /\ ek' = 1 /\ ej' = 1
  /\ UNCHANGED <<i, err, errLine, execLog, locals, env, history>>
  /\ UNCHANGED notExplicit

----------------------------------------------------------------------------
(* plan.execute_actions: the kinds in actions['op_order'], each list in order *)

\* the effect of one operation on the cache and the prefix
Apply(kind, d) ==
  /\ cache' = CASE kind = RM_FETCHED -> [cache EXCEPT ![d] = Absent]
                [] kind = FETCH ->
                     [x \in Dists |-> IF x = d THEN ArchiveMd5
                                      ELSE IF SameFile(x, d) THEN Absent ELSE cache[x]]
                [] OTHER -> cache
  /\ extracted' = CASE kind = RM_EXTRACTED -> extracted \ {d}
                    [] kind = EXTRACT -> extracted \cup {d}
                    [] OTHER -> extracted
  /\ prefixLinked' = CASE kind = UNLINK -> prefixLinked \ {d}
                       [] kind = LINK -> prefixLinked \cup {d}
                       [] OTHER -> prefixLinked

ExecOp ==
  /\ pc = "exec"
  /\ ek <= Len(actions.op_order)
  /\ ej <= Len(actions[actions.op_order[ek]])
  /\ LET kind == actions.op_order[ek]
         d == actions[kind][ej]
     IN  /\ Apply(kind, d)
         /\ execLog' = Append(execLog, [kind |-> kind, dist |-> d])
  /\ ej' = ej + 1
  /\ UNCHANGED <<pc, i, err, errLine, ek, locals, specs, fileUrlIsCache, history>>
  /\ UNCHANGED notExplicit

ExecNextKind ==
  /\ pc = "exec"
  /\ ek <= Len(actions.op_order)
  /\ ej > Len(actions[actions.op_order[ek]])
  /\ ek' = ek + 1
  /\ ej' = 1
  /\ UNCHANGED <<pc, i, err, errLine, execLog, locals, env, history>>
  /\ UNCHANGED notExplicit

ExecDone ==
  /\ pc = "exec"
  /\ ek > Len(actions.op_order)
  /\ pc' = "done"
  /\ UNCHANGED <<i, err, errLine, exec, locals, env, history>>
  /\ UNCHANGED notExplicit

\* the caller runs explicit() again with the same specification and prefix
Rerun ==
  /\ pc = "done"
  /\ run = 1
  /\ run' = 2
  /\ pc' = "idle"
  /\ linkedAfter1' = prefixLinked
  /\ plan1' = actions
  /\ UNCHANGED <<i, err, errLine, exec, locals, env, linked0>>
  /\ UNCHANGED notExplicit

----------------------------------------------------------------------------
(* The directory tree under a prefix.  A relative path is the sequence of   *)
(* its components, so that join, relpath and the replacement of '\\' by '/'  *)
(* on win32 (lines 110-114, 140, 146-147) leave it as it is.                *)

Prefix1 == "/opt/envA"
Prefix2 == "/opt/envB"

\* file contents: whether they decode as UTF-8, and their pieces
Text(toks)   == [utf8 |-> TRUE, toks |-> toks]
Binary(toks) == [utf8 |-> FALSE, toks |-> toks]
NoData       == [utf8 |-> FALSE, toks |-> <<>>]
Shebang      == Text(<<"#!", Prefix1, "/bin/python">>)
Compiled     == Binary(<<"\\xff", Prefix1, "/lib">>)

NoNode          == [kind |-> "none", target |-> "", data |-> NoData]
Dir             == [kind |-> "dir", target |-> "", data |-> NoData]
File(data)      == [kind |-> "file", target |-> "", data |-> data]
Symlink(target) == [kind |-> "symlink", target |-> target, data |-> NoData]

\* link targets
TargetAbsFile == "/opt/shared/tool.sh"
TargetAbsDir  == "/opt/shared/dir"
TargetLicense == "LICENSE.txt"
TargetModule  == "../lib/m.py"
TargetNowhere == "nowhere"

PathUniverse ==
  { <<"conda-meta">>, <<"conda-meta", "foo-1.0.json">>, <<"LICENSE.txt">>,
    <<"bin">>, <<"bin", "conda">>, <<"bin", "tool">>,
    <<"lib">>, <<"lib", "m.py">>, <<"lib", "m.pyc">>,
    <<"lib", "sub">>, <<"lib", "sub", "x">>,
    <<"top">>, <<"notes~">>, <<".DS_Store">>, <<"python.app">> }

EmptyTree == [p \in PathUniverse |-> NoNode]

Last(p) == p[Len(p)]

\* os.path.dirname of a relative path
Parent(p) == SubSeq(p, 1, Len(p) - 1)

\* the proper ancestors of a path below the prefix
Ancestors(p) == { SubSeq(p, 1, n) : n \in 1..(Len(p) - 1) }

\* what a symbolic link at p leads to in a tree: "file", "dir" or "none"
ResolveKind(tree, p) ==
  LET target == tree[p].target IN
  CASE target = TargetAbsFile -> "file"
    [] target = TargetAbsDir  -> "dir"
    [] target = TargetLicense ->
         IF tree[<<"LICENSE.txt">>].kind = "file" THEN "file" ELSE "none"
    [] target = TargetModule  ->
         IF tree[<<"lib", "m.py">>].kind = "file" THEN "file" ELSE "none"
    [] OTHER -> "none"

\* os.path.islink, isfile, isdir (the last two follow links)
islink(tree, p) == p # <<>> /\ tree[p].kind = "symlink"
isfile(tree, p) ==
  /\ p # <<>>
  /\ tree[p].kind = "file" \/ (tree[p].kind = "symlink" /\ ResolveKind(tree, p) = "file")
isdir(tree, p) ==
  \/ p = <<>>
  \/ tree[p].kind = "dir"
  \/ (tree[p].kind = "symlink" /\ ResolveKind(tree, p) = "dir")

\* os.listdir: the entries of a directory
listdir(tree, d) ==
  { p \in PathUniverse : Len(p) = Len(d) + 1 /\ Parent(p) = d /\ tree[p].kind # "none" }

\* str.endswith and the slice path[:-1] on the names of the universe
EndsWithTilde(p)   == Last(p) = "notes~"
EndsWithDSStore(p) == Last(p) = ".DS_Store"
EndsWithPyc(p)     == Last(p) = "m.pyc"
DropLastChar(p) ==
  IF Last(p) = "m.pyc" THEN Append(Parent(p), "m.py") ELSE p

----------------------------------------------------------------------------
(* conda_installed_files, walk_prefix, untracked *)

\* lines 27-38
conda_installed_files(linkedSet, exclude_self_build) ==
  UNION { meta[dist].files :
            dist \in { d \in linkedSet : ~(exclude_self_build /\ meta[d].file_hash) } }

\* lines 123-128
ignore(plat) ==
  {"pkgs", "envs", "conda-bld", "conda-meta", ".conda_lock", "users", "LICENSE.txt",
   "info", "conda-recipes", ".index", ".unionfs", ".nonadmin"}
  \cup (IF plat = "darwin" THEN {"python.app", "Launcher.app"} ELSE {})

\* line 126
binignore == {"conda", "activate", "deactivate"}

\* os.walk(top): the directories it visits; links to directories are listed
\* in dirs and not entered, except top itself
RECURSIVE OsWalkRoots(_, _)
OsWalkRoots(tree, top) ==
  IF ~isdir(tree, top) THEN {}
  ELSE {top} \cup
       UNION { OsWalkRoots(tree, c) :
                 c \in { e \in listdir(tree, top) : isdir(tree, e) /\ ~islink(tree, e) } }

\* lines 136-144: what the body of the os.walk loop records for one root
Recorded(tree, root, ignore_predefined_files) ==
  LET should_ignore == ignore_predefined_files /\ root = <<"bin">>
      files == { e \in listdir(tree, root) : ~isdir(tree, e) }
      dirs  == { e \in listdir(tree, root) : isdir(tree, e) }
  IN  { e \in files : ~(should_ignore /\ Last(e) \in binignore) }
      \cup { e \in dirs : islink(tree, e) }

\* lines 117-149
walk_prefix(tree, plat, ignore_predefined_files) ==
  LET top == { fn \in listdir(tree, <<>>) :
                 ~(ignore_predefined_files /\ Last(fn) \in ignore(plat)) }
  IN  { fn \in top : isfile(tree, fn) }
      \cup UNION { UNION { Recorded(tree, root, ignore_predefined_files) :
                             root \in OsWalkRoots(tree, fn) } :
                   fn \in { e \in top : ~isfile(tree, e) } }

\* lines 152-160 without the subtraction of conda_files
untracked_keeps_tracked(tree, plat, linkedSet, exclude_self_build) ==
  LET conda_files == conda_installed_files(linkedSet, exclude_self_build)
  IN  { path \in walk_prefix(tree, plat, TRUE) :
          ~ \/ EndsWithTilde(path)
            \/ (plat = "darwin" /\ EndsWithDSStore(path))
            \/ (EndsWithPyc(path) /\ DropLastChar(path) \in conda_files) }

\* lines 152-160
untracked(tree, plat, linkedSet, exclude_self_build) ==
  LET conda_files == conda_installed_files(linkedSet, exclude_self_build)
  IN  { path \in walk_prefix(tree, plat, TRUE) \ conda_files :
          ~ \/ EndsWithTilde(path)
            \/ (plat = "darwin" /\ EndsWithDSStore(path))
            \/ (EndsWithPyc(path) /\ DropLastChar(path) \in conda_files) }

----------------------------------------------------------------------------
(* The prefixes the reconciliation functions and clone_env are run on *)

DistFoo   == Dist("", "foo", "1.0")
DistConda == Dist("", "conda", "4.1")
EnvDists  == {DistFoo, DistConda}

\* install.is_linked(prefix, dist): the declared files, and whether the
\* record has a 'file_hash' key
MetaOf(fooHash) ==
  [d \in EnvDists |->
     IF d = DistFoo
     THEN [files |-> {<<"lib", "m.py">>}, file_hash |-> fooHash]
     ELSE [files |-> {<<"bin", "conda">>}, file_hash |-> FALSE]]

\* a prefix tree, from what is at each place where trees differ
Tree(lic, conda, tool, lib, pyc, sub, top, extra) ==
  [p \in PathUniverse |->
     CASE p = <<"conda-meta">>                 -> Dir
       [] p = <<"conda-meta", "foo-1.0.json">> -> File(Text(<<"{}">>))
       [] p = <<"LICENSE.txt">>                -> lic
       [] p = <<"bin">>                        -> Dir
       [] p = <<"bin", "conda">>               -> conda
       [] p = <<"bin", "tool">>                -> tool
       [] p = <<"lib">>                        -> lib
       [] p = <<"lib", "m.py">>                -> File(Shebang)
       [] p = <<"lib", "m.pyc">>               -> pyc
       [] p = <<"lib", "sub">>                 -> sub
       [] p = <<"lib", "sub", "x">>            ->
            IF sub.kind = "none" THEN NoNode ELSE File(Compiled)
       [] p = <<"top">>                        -> top
       [] OTHER -> IF Last(p) = extra THEN File(Text(<<"x">>)) ELSE NoNode]

LicChoices   == {NoNode, File(Text(<<"license">>))}
CondaChoices == {NoNode, File(Shebang), Symlink(TargetAbsDir)}
ToolChoices  == {NoNode, File(Shebang), Symlink(TargetModule)}
LibChoices   == {Dir, Symlink(TargetAbsDir)}
PycChoices   == {NoNode, File(Compiled)}
SubChoices   == {NoNode, Dir, Symlink(TargetAbsDir)}
TopChoices   == {NoNode, File(Shebang), Symlink(TargetAbsFile), Symlink(TargetLicense),
                 Symlink(TargetNowhere)}
ExtraChoices == {"", "notes~", ".DS_Store", "python.app"}

NotCalled == [called |-> FALSE, flag |-> FALSE, res |-> {}]
Returned(flag, res) == [called |-> TRUE, flag |-> flag, res |-> res]

\* the places (LICENSE.txt, top) can hold together
LicTopChoices ==
  { <<l, x>> \in LicChoices \X TopChoices :
      l.kind = "none" => x = Symlink(TargetLicense) }

\* the states of the variables of the functions that are not running
IdleExplicit ==
  /\ specs = <<>>
  /\ fileUrlIsCache = FALSE
  /\ prefixLinked = {}
  /\ cache = EmptyCache
  /\ extracted = {}
  /\ pc = "off"
  /\ run = 1
  /\ i = 1
  /\ linked = [n \in Names |-> NoDist]
  /\ index = EmptyIndex
  /\ schannel = Unbound
  /\ schannelLine = 0
  /\ actions = EmptyActions
  /\ warned = {}
  /\ err = NoError
  /\ errLine = 0
  /\ fetches = <<>>
  /\ ek = 1 /\ ej = 1
  /\ execLog = <<>>
  /\ linked0 = {}
  /\ linkedAfter1 = {}
  /\ plan1 = EmptyActions

IdleFiles ==
  /\ platform = "linux"
  /\ treeA = EmptyTree
  /\ linkedA = {}
  /\ meta = MetaOf(FALSE)
  /\ walkRes = NotCalled
  /\ installedRes = NotCalled
  /\ untrackedRes = NotCalled

IdleClone ==
  /\ unreadable = {}
  /\ treeB = EmptyTree
  /\ linkedB = {}
  /\ clPc = "off"
  /\ untracked_files = {}
  /\ dists = <<>>
  /\ copied = {}
  /\ skipped = {}
  /\ clActions = EmptyActions
  /\ clReturn = [called |-> FALSE, actions |-> EmptyActions, untracked |-> {}]

\* a path argument: absolute or relative, and its components
PathArg(isabs, parts) == [isabs |-> isabs, parts |-> parts]

\* what which_prefix returns: a prefix, or None
NoPrefix       == [found |-> FALSE, prefix |-> <<>>]
FoundPrefix(p) == [found |-> TRUE, prefix |-> p]

IdlePackage ==
  /\ wkArg = PathArg(TRUE, <<>>)
  /\ wkPc = "off"
  /\ wkPath = <<>>
  /\ wkTodo = <<>>
  /\ wkYielded = <<>>
  /\ wkErr = NoError

IdleWhich ==
  /\ wpCwd = <<>>
  /\ wpDirs = {}
  /\ wpPath = PathArg(TRUE, <<>>)
  /\ wpPc = "off"
  /\ wpPrefix = <<>>
  /\ wpResult = NoPrefix
  /\ IdlePackage

----------------------------------------------------------------------------
Init ==
  /\ specs \in SpecSeqs
  /\ fileUrlIsCache \in BOOLEAN
  /\ prefixLinked \in LinkedChoices
  /\ cache \in CacheChoices
  /\ extracted = { d \in Dists : cache[d] # Absent }
  /\ pc = "idle"
  /\ run = 1
  /\ i = 1
  /\ linked = [n \in Names |-> NoDist]
  /\ index = EmptyIndex
  /\ schannel = Unbound
  /\ schannelLine = 0
  /\ actions = EmptyActions
  /\ warned = {}
  /\ err = NoError
  /\ errLine = 0
  /\ fetches = <<>>
  /\ ek = 1 /\ ej = 1
  /\ execLog = <<>>
  /\ linked0 = prefixLinked
  /\ linkedAfter1 = {}
  /\ plan1 = EmptyActions
  /\ IdleFiles
  /\ IdleClone
  /\ IdleWhich

Next ==
  \/ ExplicitBegin
  \/ SkipExplicitMarker
  \/ ExitCouldNotParse
  \/ ExitFileNotFound
  \/ LineCached
  \/ RaiseNameError
  \/ ExitNoPackage
  \/ ExitMd5Mismatch
  \/ LineFetch
  \/ ExecuteActions
  \/ ExecOp
  \/ ExecNextKind
  \/ ExecDone
  \/ Rerun

Spec == Init /\ [][Next]_vars

----------------------------------------------------------------------------
(* The reconciliation functions, called on a prefix *)

\* a caller calls walk_prefix(prefix)
CallWalkPrefix ==
  /\ walkRes' = Returned(TRUE, walk_prefix(treeA, platform, TRUE))
  /\ UNCHANGED <<platform, treeA, linkedA, meta, installedRes, untrackedRes>>
  /\ UNCHANGED <<explicitVars, cloneVars, whichVars>>

\* a caller calls conda_installed_files(prefix, exclude_self_build)
CallCondaInstalledFiles ==
  /\ \E flag \in BOOLEAN :
       installedRes' = Returned(flag, conda_installed_files(linkedA, flag))
  /\ UNCHANGED <<platform, treeA, linkedA, meta, walkRes, untrackedRes>>
  /\ UNCHANGED <<explicitVars, cloneVars, whichVars>>

\* a caller calls untracked(prefix, exclude_self_build)
CallUntracked ==
  /\ \E flag \in BOOLEAN :
       untrackedRes' = Returned(flag, untracked(treeA, platform, linkedA, flag))
  /\ UNCHANGED <<platform, treeA, linkedA, meta, walkRes, installedRes>>
  /\ UNCHANGED <<explicitVars, cloneVars, whichVars>>

\* the part of an initial state that the reconciliation functions read
PrefixState(lics, tops, tools) ==
  /\ platform \in {"linux", "darwin"}
  /\ \E lt \in { x \in LicTopChoices : x[1] \in lics /\ x[2] \in tops },
        conda \in CondaChoices, tool \in tools, lib \in LibChoices,
        pyc \in PycChoices, sub \in SubChoices, extra \in ExtraChoices :
       treeA = Tree(lt[1], conda, tool, lib, pyc, sub, lt[2], extra)
  /\ walkRes = NotCalled
  /\ installedRes = NotCalled
  /\ untrackedRes = NotCalled
  /\ IdleExplicit
  /\ IdleClone
  /\ IdleWhich

InitWalk ==
  /\ PrefixState(LicChoices, TopChoices, ToolChoices)
  /\ linkedA = {}
  /\ meta = MetaOf(FALSE)

NextWalk == CallWalkPrefix

SpecWalk == InitWalk /\ [][NextWalk]_vars

InitFiles ==
  /\ PrefixState(LicChoices \ {NoNode}, {NoNode, File(Shebang)}, ToolChoices \ {NoNode})
  /\ linkedA \in SUBSET EnvDists
  /\ \E fooHash \in BOOLEAN :
       /\ fooHash => DistFoo \in linkedA
       /\ meta = MetaOf(fooHash)

NextFiles ==
  \/ CallCondaInstalledFiles
  \/ CallUntracked

SpecFiles == InitFiles /\ [][NextFiles]_vars

----------------------------------------------------------------------------
(* clone_env(prefix1, prefix2): prefix1 is treeA, prefix2 is treeB *)

\* lines 195-196 with every distribution kept
discard_nothing(ds) == ds

\* lines 195-196
discard_conda(ds) ==
  LET Keep(dist) == ~(name_dist(dist) = "conda")
  IN  SelectSeq(ds, Keep)

\* the orders in which a set can be listed
Orders(S) ==
  { s \in [1..Cardinality(S) -> S] : \A a, b \in 1..Cardinality(S) : a # b => s[a] # s[b] }

SeqRange(s) == { s[n] : n \in 1..Len(s) }

\* lines 235-239: what is in the way of the destination directory is removed,
\* the directory and its missing parents are created
MakeDstDir(tree, f) ==
  LET dst_dir == Parent(f)
      t1 == IF islink(tree, dst_dir) \/ isfile(tree, dst_dir)
            THEN [tree EXCEPT ![dst_dir] = NoNode]
            ELSE tree
  IN  IF isdir(t1, dst_dir) THEN t1
      ELSE [p \in PathUniverse |->
              IF p \in Ancestors(f) /\ ~isdir(t1, p) THEN Dir ELSE t1[p]]

\* a link recreated as a regular file holding what the link leads to
CloneLinkAsCopy(tree, f) == [tree EXCEPT ![f] = File(Shebang)]

\* lines 240-241: os.symlink(os.readlink(src), dst)
CloneLink(tree, f) == [tree EXCEPT ![f] = Symlink(treeA[f].target)]

\* lines 250-255: text has prefix1 replaced by prefix2, binary data is kept
Rewrite(data) ==
  IF data.utf8
  THEN Text([n \in 1..Len(data.toks) |->
               IF data.toks[n] = Prefix1 THEN Prefix2 ELSE data.toks[n]])
  ELSE data

\* lines 250-259 with nothing written when the data does not decode
CloneWriteTextOnly(tree, f) ==
  IF treeA[f].data.utf8 THEN [tree EXCEPT ![f] = File(Rewrite(treeA[f].data))] ELSE tree

\* lines 250-259: the (rewritten) data is written to dst
CloneWrite(tree, f) == [tree EXCEPT ![f] = File(Rewrite(treeA[f].data))]

\* plan.ensure_linked_actions: link what is not linked in the prefix yet
ensure_linked_actions(sorted_dists, linkedSet) ==
  LET Missing(dist) == dist \notin linkedSet
  IN  [EmptyActions EXCEPT ![LINK] = SelectSeq(sorted_dists, Missing)]

\* the record conda-meta/<dist>.json of a distribution, where the universe has it
MetaFile(dist) ==
  IF dist = DistFoo THEN {<<"conda-meta", "foo-1.0.json">>} ELSE {}

\* plan.execute_actions for a link-only plan: the files of the linked
\* distributions and their records are in the prefix
LinkedTree(tree, ds) ==
  LET files   == UNION { meta[d].files : d \in ds }
      records == UNION { MetaFile(d) : d \in ds }
      made    == files \cup records
      dirs0   == UNION { Ancestors(f) : f \in made }
  IN  [p \in PathUniverse |->
         IF p \in files THEN File(Text(<<"#!", Prefix2, "/bin/python">>))
         ELSE IF p \in records THEN File(Text(<<"{}">>))
         ELSE IF p \in dirs0 /\ ~isdir(tree, p) THEN Dir
         ELSE tree[p]]

cloneLocals == <<untracked_files, dists, copied, skipped, clActions, clReturn>>

\* lines 225-226
CloneBegin ==
  /\ clPc = "idle"
  /\ untracked_files' = untracked(treeA, platform, linkedA, FALSE)
  /\ \E order \in Orders(linkedA) : dists' = discard_conda(order)
  /\ clPc' = "loop"
  /\ UNCHANGED <<unreadable, treeB, linkedB, copied, skipped, clActions, clReturn>>
  /\ UNCHANGED <<explicitVars, fileVars, whichVars>>

\* lines 232-242: an untracked entry that is a symbolic link
CloneSymlink ==
  /\ clPc = "loop"
  /\ \E f \in untracked_files \ copied :
       /\ islink(treeA, f)
       /\ treeB' = CloneLink(MakeDstDir(treeB, f), f)
       /\ copied' = copied \cup {f}
  /\ UNCHANGED <<unreadable, linkedB, clPc, untracked_files, dists, skipped, clActions,
                 clReturn>>
  /\ UNCHANGED <<explicitVars, fileVars, whichVars>>

\* lines 232-248 with dst opened for writing before src is read
CloneSkipTruncates ==
  /\ clPc = "loop"
  /\ \E f \in untracked_files \ copied :
       /\ ~islink(treeA, f)
       /\ f \in unreadable
       /\ treeB' = [MakeDstDir(treeB, f) EXCEPT ![f] = File(Text(<<>>))]
       /\ copied' = copied \cup {f}
       /\ skipped' = skipped \cup {f}
  /\ UNCHANGED <<unreadable, linkedB, clPc, untracked_files, dists, clActions, clReturn>>
  /\ UNCHANGED <<explicitVars, fileVars, whichVars>>

\* lines 232-248: open(src) raises IOError, the file is skipped
CloneSkipUnreadable ==
  /\ clPc = "loop"
  /\ \E f \in untracked_files \ copied :
       /\ ~islink(treeA, f)
       /\ f \in unreadable
       /\ treeB' = MakeDstDir(treeB, f)
       /\ copied' = copied \cup {f}
       /\ skipped' = skipped \cup {f}
  /\ UNCHANGED <<unreadable, linkedB, clPc, untracked_files, dists, clActions, clReturn>>
  /\ UNCHANGED <<explicitVars, fileVars, whichVars>>

\* lines 232-259: the file is read, rewritten when it is text, and written
CloneCopy ==
  /\ clPc = "loop"
  /\ \E f \in untracked_files \ copied :
       /\ ~islink(treeA, f)
       /\ f \notin unreadable
       /\ treeB' = CloneWrite(MakeDstDir(treeB, f), f)
       /\ copied' = copied \cup {f}
  /\ UNCHANGED <<unreadable, linkedB, clPc, untracked_files, dists, skipped, clActions,
                 clReturn>>
  /\ UNCHANGED <<explicitVars, fileVars, whichVars>>

\* lines 261-267: the distributions are sorted by dependency and the link
\* plan for prefix2 is built
CloneLinkPlan ==
  /\ clPc = "loop"
  /\ copied = untracked_files
  /\ \E sorted_dists \in Orders(SeqRange(dists)) :
       clActions' = ensure_linked_actions(sorted_dists, linkedB)
  /\ clPc' = "plan"
  /\ UNCHANGED <<unreadable, treeB, linkedB, untracked_files, dists, copied, skipped,
                 clReturn>>
  /\ UNCHANGED <<explicitVars, fileVars, whichVars>>

\* line 268: execute_actions(actions, index=index, verbose=not quiet)
CloneExecute ==
  /\ clPc = "plan"
  /\ linkedB' = linkedB \cup SeqRange(clActions[LINK])
  /\ treeB' = LinkedTree(treeB, SeqRange(clActions[LINK]))
  /\ clPc' = "executed"
  /\ UNCHANGED <<unreadable, cloneLocals>>
  /\ UNCHANGED <<explicitVars, fileVars, whichVars>>

\* line 270: return actions, untracked_files
CloneReturn ==
  /\ clPc = "executed"
  /\ clReturn' = [called |-> TRUE, actions |-> clActions, untracked |-> untracked_files]
  /\ clPc' = "returned"
  /\ UNCHANGED <<unreadable, treeB, linkedB, untracked_files, dists, copied, skipped,
                 clActions>>
  /\ UNCHANGED <<explicitVars, fileVars, whichVars>>

InitClone ==
  /\ platform = "linux"
  /\ \E lt \in LicTopChoices, conda \in {NoNode, Symlink(TargetAbsDir)},
        tool \in ToolChoices \ {NoNode}, lib \in LibChoices, pyc \in PycChoices,
        sub \in SubChoices :
       treeA = Tree(lt[1], conda, tool, lib, pyc, sub, lt[2], "")
  /\ linkedA \in SUBSET EnvDists
  /\ meta = MetaOf(FALSE)
  /\ walkRes = NotCalled
  /\ installedRes = NotCalled
  /\ untrackedRes = NotCalled
  /\ unreadable \in { {}, {<<"bin", "tool">>}, {<<"lib", "sub", "x">>, <<"top">>} }
  /\ treeB = EmptyTree
  /\ linkedB = {}
  /\ clPc = "idle"
  /\ untracked_files = {}
  /\ dists = <<>>
  /\ copied = {}
  /\ skipped = {}
  /\ clActions = EmptyActions
  /\ clReturn = [called |-> FALSE, actions |-> EmptyActions, untracked |-> {}]
  /\ IdleExplicit
  /\ IdleWhich

NextClone ==
  \/ CloneBegin
  \/ CloneSymlink
  \/ CloneSkipUnreadable
  \/ CloneCopy
  \/ CloneLinkPlan
  \/ CloneExecute
  \/ CloneReturn

SpecClone == InitClone /\ [][NextClone]_vars

----------------------------------------------------------------------------
(* which_prefix(path) *)

\* the longest path argument
WpMaxDepth == 3

Components == {"e", "f", ".."}

\* the component sequences of at most n components
RECURSIVE SeqsUpTo(_)
SeqsUpTo(n) ==
  IF n = 0 THEN {<<>>}
  ELSE LET shorter == SeqsUpTo(n - 1)
       IN  shorter \cup { Append(s, c) : s \in { x \in shorter : Len(x) = n - 1 },
                                         c \in Components }

\* the directories named conda-meta a file system can hold
MetaDirChoices ==
  SUBSET { <<"conda-meta">>, <<"e", "conda-meta">>, <<"f", "conda-meta">>,
           <<"e", "f", "conda-meta">> }

CwdChoices == { <<>>, <<"e">>, <<"e", "f">> }

\* os.path.normpath on components: ".." removes the component before it, and
\* stays at the root
RECURSIVE normpath(_)
normpath(parts) ==
  IF parts = <<>> THEN <<>>
  ELSE LET front == normpath(SubSeq(parts, 1, Len(parts) - 1))
           last  == parts[Len(parts)]
       IN  IF last = ".."
           THEN IF front = <<>> THEN <<>> ELSE SubSeq(front, 1, Len(front) - 1)
           ELSE Append(front, last)

\* os.path.abspath: normpath(join(os.getcwd(), path))
abspath(cwd, path) ==
  normpath(IF path.isabs THEN path.parts ELSE cwd \o path.parts)

\* a dirname that goes up two levels at a time
dirname_skips_level(p) ==
  IF Len(p) <= 2 THEN <<>> ELSE SubSeq(p, 1, Len(p) - 2)

\* os.path.dirname: the root is its own dirname
dirname(p) ==
  IF p = <<>> THEN <<>> ELSE SubSeq(p, 1, Len(p) - 1)

\* isdir(join(prefix, 'conda-meta'))
HasCondaMeta(prefix) == Append(prefix, "conda-meta") \in wpDirs

\* line 168
WpBegin ==
  /\ wpPc = "idle"
  /\ wpPrefix' = abspath(wpCwd, wpPath)
  /\ wpPc' = "loop"
  /\ UNCHANGED <<wpCwd, wpDirs, wpPath, wpResult, wkLocals>>
  /\ UNCHANGED <<explicitVars, fileVars, cloneVars>>

\* lines 170-172
WpFound ==
  /\ wpPc = "loop"
  /\ HasCondaMeta(wpPrefix)
  /\ wpResult' = FoundPrefix(wpPrefix)
  /\ wpPc' = "returned"
  /\ UNCHANGED <<wpCwd, wpDirs, wpPath, wpPrefix, wkLocals>>
  /\ UNCHANGED <<explicitVars, fileVars, cloneVars>>

\* lines 173-175
WpNotFound ==
  /\ wpPc = "loop"
  /\ ~HasCondaMeta(wpPrefix)
  /\ wpPrefix = dirname(wpPrefix)
  /\ wpResult' = NoPrefix
  /\ wpPc' = "returned"
  /\ UNCHANGED <<wpCwd, wpDirs, wpPath, wpPrefix, wkLocals>>
  /\ UNCHANGED <<explicitVars, fileVars, cloneVars>>

\* line 176
WpAscend ==
  /\ wpPc = "loop"
  /\ ~HasCondaMeta(wpPrefix)
  /\ wpPrefix # dirname(wpPrefix)
  /\ wpPrefix' = dirname(wpPrefix)
  /\ UNCHANGED <<wpCwd, wpDirs, wpPath, wpPc, wpResult, wkLocals>>
  /\ UNCHANGED <<explicitVars, fileVars, cloneVars>>

InitWhich ==
  /\ wpCwd \in CwdChoices
  /\ wpDirs \in MetaDirChoices
  /\ \E isabs \in BOOLEAN, parts \in SeqsUpTo(WpMaxDepth) : wpPath = PathArg(isabs, parts)
  /\ wpPc = "idle"
  /\ wpPrefix = <<>>
  /\ wpResult = NoPrefix
  /\ IdlePackage
  /\ IdleExplicit
  /\ IdleFiles
  /\ IdleClone

NextWhich ==
  \/ WpBegin
  \/ WpFound
  \/ WpNotFound
  \/ WpAscend

\* the loop of which_prefix runs on: a call that has a step left takes it
SpecWhich == InitWhich /\ [][NextWhich]_vars /\ WF_vars(NextWhich)

----------------------------------------------------------------------------
(* which_package(path) *)

\* the files the metadata of a linked distribution can declare, relative to
\* the prefix
FooFileChoices   == { {<<"f">>}, {<<"e", "f">>}, {<<"f">>, <<"f", "..", "e">>} }
CondaFileChoices == { {<<"f">>}, {<<"e">>} }

\* line 191 comparing the joined path as it is, without abspath
DeclaresPathUnresolved(prefix, dist, path) ==
  \E f \in meta[dist].files : prefix \o f = path

\* line 191: any(abspath(join(prefix, f)) == path for f in meta['files'])
DeclaresPath(prefix, dist, path) ==
  \E f \in meta[dist].files : abspath(<<>>, PathArg(TRUE, prefix \o f)) = path

\* lines 185-186: path = abspath(path), which_prefix(path) is called
WkBegin ==
  /\ wkPc = "idle"
  /\ wkPath' = abspath(wpCwd, wkArg)
  /\ wpPath' = PathArg(TRUE, abspath(wpCwd, wkArg))
  /\ wpPc' = "idle"
  /\ wkPc' = "prefix"
  /\ UNCHANGED <<wpCwd, wpDirs, wpPrefix, wpResult, wkArg, wkTodo, wkYielded, wkErr>>
  /\ UNCHANGED <<explicitVars, fileVars, cloneVars>>

\* lines 187-188: raise RuntimeError
WkRaise ==
  /\ wkPc = "prefix"
  /\ wpPc = "returned"
  /\ ~wpResult.found
  /\ wkErr' = "RuntimeError: could not determine conda prefix"
  /\ wkPc' = "raised"
  /\ UNCHANGED <<wpCwd, wpDirs, wpPath, wpPc, wpPrefix, wpResult, wkArg, wkPath, wkTodo,
                 wkYielded>>
  /\ UNCHANGED <<explicitVars, fileVars, cloneVars>>

\* line 189: the iteration over install.linked(prefix) starts
WkEnter ==
  /\ wkPc = "prefix"
  /\ wpPc = "returned"
  /\ wpResult.found
  /\ wkTodo' \in Orders(linkedA)
  /\ wkPc' = "iter"
  /\ UNCHANGED <<wpCwd, wpDirs, wpPath, wpPc, wpPrefix, wpResult, wkArg, wkPath,
                 wkYielded, wkErr>>
  /\ UNCHANGED <<explicitVars, fileVars, cloneVars>>

\* lines 190-192: a distribution that declares the path is yielded
WkYield ==
  /\ wkPc = "iter"
  /\ wkTodo # <<>>
  /\ DeclaresPath(wpResult.prefix, Head(wkTodo), wkPath)
  /\ wkYielded' = Append(wkYielded, Head(wkTodo))
  /\ wkTodo' = Tail(wkTodo)
  /\ UNCHANGED <<wpCwd, wpDirs, wpPath, wpPc, wpPrefix, wpResult, wkArg, wkPc, wkPath,
                 wkErr>>
  /\ UNCHANGED <<explicitVars, fileVars, cloneVars>>

\* lines 190-191: a distribution that does not declare the path is passed over
WkSkip ==
  /\ wkPc = "iter"
  /\ wkTodo # <<>>
  /\ ~DeclaresPath(wpResult.prefix, Head(wkTodo), wkPath)
  /\ wkTodo' = Tail(wkTodo)
  /\ UNCHANGED <<wpCwd, wpDirs, wpPath, wpPc, wpPrefix, wpResult, wkArg, wkPc, wkPath,
                 wkYielded, wkErr>>
  /\ UNCHANGED <<explicitVars, fileVars, cloneVars>>

\* line 189: the loop is over, the generator is exhausted
WkStop ==
  /\ wkPc = "iter"
  /\ wkTodo = <<>>
  /\ wkPc' = "stopped"
  /\ UNCHANGED <<wpCwd, wpDirs, wpPath, wpPc, wpPrefix, wpResult, wkArg, wkPath, wkTodo,
                 wkYielded, wkErr>>
  /\ UNCHANGED <<explicitVars, fileVars, cloneVars>>

InitPackage ==
  /\ wpCwd \in { <<>>, <<"e">> }
  /\ wpDirs \in SUBSET { <<"conda-meta">>, <<"e", "conda-meta">> }
  /\ \E isabs \in BOOLEAN, parts \in SeqsUpTo(WpMaxDepth) : wkArg = PathArg(isabs, parts)
  /\ linkedA \in SUBSET EnvDists
  /\ \E ff \in FooFileChoices, cf \in CondaFileChoices :
       meta = [d \in EnvDists |->
                 [files |-> IF d = DistFoo THEN ff ELSE cf, file_hash |-> FALSE]]
  /\ wkPc = "idle"
  /\ wkPath = <<>>
  /\ wkTodo = <<>>
  /\ wkYielded = <<>>
  /\ wkErr = NoError
  /\ wpPath = PathArg(TRUE, <<>>)
  /\ wpPc = "off"
  /\ wpPrefix = <<>>
  /\ wpResult = NoPrefix
  /\ platform = "linux"
  /\ treeA = EmptyTree
  /\ walkRes = NotCalled
  /\ installedRes = NotCalled
  /\ untrackedRes = NotCalled
  /\ IdleExplicit
  /\ IdleClone

NextPackage ==
  \/ WkBegin
  \/ WpBegin
  \/ WpFound
  \/ WpNotFound
  \/ WpAscend
  \/ WkRaise
  \/ WkEnter
  \/ WkYield
  \/ WkSkip
  \/ WkStop

SpecPackage == InitPackage /\ [][NextPackage]_vars

\* the paths the ignore set of walk_prefix names: what lies at or under a
\* reserved top-level entry, and the launcher scripts inside bin
InIgnoreSet(p) ==
  \/ p[1] \in ignore(platform)
  \/ (Len(p) = 2 /\ p[1] = "bin" /\ p[2] \in binignore)

\* C6: the set untracked(prefix, flag) returns is disjoint from the set
\* conda_installed_files(prefix, flag) returns, for either value of the flag.
C6_UntrackedDisjointFromInstalled ==
  (untrackedRes.called /\ installedRes.called /\ untrackedRes.flag = installedRes.flag)
    => untrackedRes.res \cap installedRes.res = {}

C6_Witness ==
  /\ untrackedRes.called /\ installedRes.called
  /\ untrackedRes.flag /\ installedRes.flag
  /\ untrackedRes.res # {}
  /\ installedRes.res # {}
  /\ \E d \in linkedA : meta[d].file_hash
  /\ \E f \in installedRes.res : f \in walk_prefix(treeA, platform, TRUE)

\* C7: no path of the walk's ignore set is in the set walk_prefix(prefix)
\* returns, whatever the tree under the prefix holds at that path.
C7_IgnoredNeverWalked ==
  walkRes.called => \A p \in walkRes.res : ~InIgnoreSet(p)


----------------------------------------------------------------------------
(* Properties of explicit() *)

\* the place of a kind in the fixed order RM_FETCHED, FETCH, RM_EXTRACTED,
\* EXTRACT, UNLINK, LINK
KindRank(kind) ==
  CASE kind = RM_FETCHED   -> 1
    [] kind = FETCH        -> 2
    [] kind = RM_EXTRACTED -> 3
    [] kind = EXTRACT      -> 4
    [] kind = UNLINK       -> 5
    [] kind = LINK         -> 6

\* the operations of one kind among the operations applied, in order
Applied(kind) ==
  LET IsKind(e) == e.kind = kind
      sel == SelectSeq(execLog, IsKind)
  IN  [n \in 1..Len(sel) |-> sel[n].dist]

\* C1: the operations of the submitted plan are applied in the fixed kind-order:
\* an operation of an earlier kind is never applied after one of a later kind
\* (every remove-cached-archive before every fetch, every remove-extracted
\* before every extract, every unlink before every link), and when the executor
\* is done it has applied exactly the lists of the plan.
C1_AppliedInKindOrder ==
  /\ \A p, q \in 1..Len(execLog) :
       p < q => KindRank(execLog[p].kind) <= KindRank(execLog[q].kind)
  /\ pc = "done" => \A kind \in Kinds : Applied(kind) = actions[kind]

C1_Witness ==
  /\ pc = "done"
  /\ Len(actions[RM_FETCHED]) > 0 /\ Len(actions[FETCH]) > 0
  /\ Len(actions[UNLINK]) > 0 /\ Len(actions[LINK]) > 1

\* C2: starting from a prefix with at most one distribution per base name,
\* no two distinct distributions with the same base name are ever linked in
\* the prefix while the plan of explicit() executes, nor when it is done.
C2_OneDistPerBaseName ==
  run = 1 =>
    \A d1, d2 \in prefixLinked : name_dist(d1) = name_dist(d2) => d1 = d2

\* a line that is fatal whatever the cache and the index hold
FatalLine(s) ==
  /\ ~s.marker
  /\ ~s.tarbz2 \/ (~is_url(s.loc) /\ ~s.isfile)

\* C3: when a specification line raises a fatal condition, at any position of
\* the batch, the run aborts and the executor is never invoked: no operation is
\* applied and the linked state of the prefix is what it was when the run began.
C3_FatalLineAbortsBatch ==
  /\ err # NoError =>
       /\ pc = "aborted"
       /\ execLog = <<>>
       /\ prefixLinked = linked0
  /\ (\E k \in 1..Len(specs) : FatalLine(specs[k])) =>
       /\ pc \notin {"exec", "done"}
       /\ execLog = <<>>
       /\ prefixLinked = linked0

C3_Witness ==
  /\ pc = "aborted"
  /\ errLine = 2
  /\ err = "Error: MD5 in explicit files does not match index"
  /\ Len(actions[LINK]) = 1
  /\ Len(actions[UNLINK]) = 1

\* the collection of the line lists its file with no md5 or with the line's md5
ListedWithMd5(s) ==
  \E e \in Repodata(UrlP(s)) :
    e.name = s.name /\ e.ver = s.ver /\ e.md5 \in {None, s.md5}

InList(d, seq) == \E n \in 1..Len(seq) : seq[n] = d

\* C4: a line that supplies a checksum differing from the checksum of the
\* cached archive of its distribution is not an error: when the collection
\* lists the file, the line is processed and the plan holds
\* remove-cached-archive(dist) and fetch-archive(dist).
C4_StaleArchiveRefetched ==
  pc \in {"loop", "aborted"} =>
    \A k \in 1..Len(specs) :
      (Parsed(specs[k]) /\ Stale(specs[k]) /\ ListedWithMd5(specs[k])) =>
        /\ ~(pc = "aborted" /\ errLine = k)
        /\ k < i => /\ InList(LineDist(specs[k]), actions[RM_FETCHED])
                    /\ InList(LineDist(specs[k]), actions[FETCH])

\* lines that share a base name name the same archive
OneArchivePerName ==
  \A a, b \in 1..Len(specs) :
    (~specs[a].marker /\ ~specs[b].marker /\ specs[a].name = specs[b].name) =>
      (UrlP(specs[a]) = UrlP(specs[b]) /\ specs[a].ver = specs[b].ver)

\* C5: running explicit() again with the same specification into the same
\* prefix, after the first plan was executed, ends in the linked state the
\* first run ended in; the second plan links what the first plan linked and
\* unlinks exactly the identifiers it links.  (The claim speaks of one
\* specification and one identifier: the formula covers every sequence in which
\* the lines sharing a base name name the same archive.)
C5_SecondRunIdempotent ==
  (run = 2 /\ OneArchivePerName) =>
    /\ pc \in {"done", "aborted"} => prefixLinked = linkedAfter1
    /\ pc \in {"exec", "done"} =>
         /\ actions[LINK] = plan1[LINK]
         /\ actions[UNLINK] = actions[LINK]

C5_Witness ==
  /\ run = 2 /\ pc = "done" /\ OneArchivePerName
  /\ Len(plan1[FETCH]) > 0 /\ Len(plan1[UNLINK]) > 0
  /\ Len(actions[FETCH]) = 0
  /\ Len(actions[UNLINK]) > 0
  /\ plan1[UNLINK] # actions[UNLINK]


\* the untracked files of the source and of the destination of the clone
UntrackedA == untracked(treeA, platform, linkedA, FALSE)
UntrackedB == untracked(treeB, platform, linkedB, FALSE)

\* top-level links of the source whose copy in the destination leads to no file
DanglingTop ==
  { f \in untracked_files : Len(f) = 1 /\ islink(treeA, f) /\ ~isfile(treeB, f) }

\* C9 as stated: after clone_env(A, B) into a fresh B, untracked(B) is the
\* relative file set untracked(A).
C9_CloneRoundTrip ==
  clPc = "returned" => UntrackedB = UntrackedA

\* C9 as amended: after clone_env(A, B) into a fresh B, untracked(B) is
\* untracked(A) without the files that could not be read and without the
\* top-level symbolic links whose target is not a file as seen from B.
C9_CloneRoundTripReadable ==
  clPc = "returned" => UntrackedB = UntrackedA \ (skipped \cup DanglingTop)

C9_Witness ==
  /\ clPc = "returned"
  /\ skipped # {}
  /\ DanglingTop # {}
  /\ \E f \in UntrackedB : islink(treeB, f)
  /\ \E f \in UntrackedB : treeB[f].kind = "file" /\ treeB[f].data # treeA[f].data
  /\ linkedB # {}

\* C10: every untracked entry of the source that is a symbolic link is, once
\* the loop has been through it, a symbolic link with the same target string
\* at the same relative path of the destination, never a copy of what the
\* link leads to.
C10_LinksRecreated ==
  \A f \in copied :
    islink(treeA, f) => (islink(treeB, f) /\ treeB[f].target = treeA[f].target)

C10_Witness ==
  /\ clPc = "returned"
  /\ <<"bin", "tool">> \in copied
  /\ treeA[<<"bin", "tool">>] = Symlink(TargetModule)
  /\ treeB[<<"bin", "tool">>] = Symlink(TargetModule)
  /\ copied = {<<"bin", "tool">>}


\* the ancestors of a path, the path itself included
SelfAndAncestors(p) == { SubSeq(p, 1, n) : n \in 0..Len(p) }

\* the ancestors of the argument of which_prefix that hold a conda-meta directory
MetaAncestors ==
  { a \in SelfAndAncestors(abspath(wpCwd, wpPath)) : Append(a, "conda-meta") \in wpDirs }

\* the deepest of them, or None
Nearest ==
  IF MetaAncestors = {} THEN NoPrefix
  ELSE FoundPrefix(CHOOSE a \in MetaAncestors : \A b \in MetaAncestors : Len(b) <= Len(a))

\* C8: which_prefix terminates, and what it returns is the nearest ancestor of
\* the path (the path itself included) that contains a conda-meta directory,
\* or None when no ancestor up to the root has one.
C8_WhichPrefixNearestAncestor ==
  /\ <>(wpPc = "returned")
  /\ [](wpPc = "returned" => wpResult = Nearest)

C8_Witness ==
  /\ wpPc = "returned"
  /\ wpResult.found
  /\ Cardinality(MetaAncestors) >= 2
  /\ Len(wpResult.prefix) < Len(abspath(wpCwd, wpPath))
  /\ ~wpPath.isabs
  /\ \E n \in 1..Len(wpPath.parts) : wpPath.parts[n] = ".."


\* the linked distributions that declare a file resolving to the queried path
Owners ==
  { d \in linkedA :
      \E f \in meta[d].files : normpath(wpResult.prefix \o f) = wkPath }

\* C11: which_package raises when the path has no owning environment;
\* otherwise, once exhausted, it has yielded exactly the distributions linked
\* into the owning environment that declare a file resolving to the absolute
\* path, each once at most: zero, one or several, never more than are linked.
C11_WhichPackageYieldsOwners ==
  /\ wkPc = "raised" => (MetaAncestors = {} /\ wkYielded = <<>>)
  /\ wkPc \in {"iter", "stopped"} => (MetaAncestors # {} /\ wpResult = Nearest)
  /\ wkPc = "stopped" =>
       /\ SeqRange(wkYielded) = Owners
       /\ Len(wkYielded) = Cardinality(Owners)
       /\ Len(wkYielded) <= Cardinality(linkedA)

C11_Witness ==
  /\ wkPc = "stopped"
  /\ Len(wkYielded) = 2
  /\ wpResult.prefix # <<>>
  /\ ~wkArg.isabs
  /\ \E f \in meta[DistFoo].files : \E n \in 1..Len(f) : f[n] = ".."


\* C12: in every run of explicit() the plan is handed to the executor once,
\* after the last specification line: the executor starts only from the end
\* of the loop with nothing applied yet, applies operations only then, and
\* the plan it was given is not added to and not submitted again.
C12_PlanSubmittedOnceAtEnd ==
  [][ /\ (pc # "exec" /\ pc' = "exec") =>
           (pc = "loop" /\ i > Len(specs) /\ execLog = <<>>)
      /\ (Len(execLog') > Len(execLog)) => (pc = "exec" /\ i > Len(specs))
      /\ (pc \in {"exec", "done"} /\ run' = run) =>
           (actions' = actions /\ pc' \in {"exec", "done"})
      /\ (pc = "done" /\ run' = run) => pc' = "done"
    ]_vars

C12_Witness ==
  /\ pc = "done"
  /\ run = 2
  /\ Len(specs) = 2
  /\ Len(actions[LINK]) = 2
  /\ Len(actions[FETCH]) >= 1
  /\ Len(execLog) >= 6


\* C13: within one run of explicit(), the channel index of a given
\* collection URL is fetched at most once.
C13_IndexFetchedOncePerUrl ==
  \A a, b \in 1..Len(fetches) : a # b => fetches[a].url # fetches[b].url


\* a step of the loop that processed a specification line without a fatal
\* error and went on to the next one
LineStep ==
  /\ pc = "loop" /\ pc' = "loop"
  /\ i <= Len(specs)
  /\ i' = i + 1
  /\ ~specs[i].marker

\* a cached archive exists for dist and the line gives no other checksum
ValidlyCached(s, dist) ==
  /\ cache[dist] # Absent
  /\ s.md5 = NoMd5 \/ cache[dist] = s.md5

\* C14: for every line processed without a fatal error, fetch-archive(dist)
\* is scheduled if and only if no cached archive exists for dist or the
\* supplied checksum differs from the cached archive's; with a validly cached
\* archive the index is not consulted and neither a fetch nor a removal of
\* the cached archive is scheduled for the line.
C14_FetchIffNotValidlyCached ==
  [][ LineStep =>
        LET s    == specs[i]
            dist == LineDist(s)
        IN  /\ actions'[FETCH] = IF ValidlyCached(s, dist) THEN actions[FETCH]
                                 ELSE Append(actions[FETCH], dist)
            /\ ValidlyCached(s, dist) =>
                 /\ index' = index
                 /\ fetches' = fetches
                 /\ actions'[RM_FETCHED] = actions[RM_FETCHED]
    ]_vars

C14_Witness ==
  /\ pc = "done"
  /\ Len(actions[LINK]) = 2
  /\ Len(actions[FETCH]) = 1
  /\ Len(actions[RM_FETCHED]) = 1
  /\ Len(fetches) = 1
  /\ specs[1].md5 # NoMd5

\* the distributions linked under the base name of dist when the run began
LinkedUnderName(dist) == { x \in linked0 : name_dist(x) = name_dist(dist) }

\* C15: every line processed without a fatal error appends its distribution
\* to the remove-extracted, extract and link lists, so the three lists are
\* equal and in specification order; it appends to the unlink list the
\* distribution linked in the prefix at the start of the run under the same
\* base name, if and only if there is one.
C15_InstallListsEqual ==
  /\ [](actions[RM_EXTRACTED] = actions[EXTRACT] /\ actions[EXTRACT] = actions[LINK])
  /\ [][ LineStep =>
           LET dist == LineDist(specs[i])
           IN  /\ \A kind \in {RM_EXTRACTED, EXTRACT, LINK} :
                    actions'[kind] = Append(actions[kind], dist)
               /\ IF LinkedUnderName(dist) = {}
                  THEN actions'[UNLINK] = actions[UNLINK]
                  ELSE \E old \in LinkedUnderName(dist) :
                         actions'[UNLINK] = Append(actions[UNLINK], old)
       ]_vars

C15_Witness ==
  /\ pc = "exec"
  /\ run = 1
  /\ Len(actions[LINK]) = 2
  /\ actions[LINK][1] # actions[LINK][2]
  /\ Len(actions[UNLINK]) = 1
  /\ actions[UNLINK][1] # actions[LINK][1]
  /\ actions[UNLINK][1] # actions[LINK][2]

\* C16: for a line that supplies a checksum and has no validly cached archive,
\* once the index has an entry for the file name: an entry without a checksum
\* field only draws a warning, and the fetch and the rest of the line's actions
\* are scheduled; an entry with another checksum is a fatal error; an entry
\* with the same checksum schedules the fetch without a warning.
C16_Md5WarningOrFatal ==
  [][ ( /\ pc = "loop" /\ i <= Len(specs)
        /\ Parsed(specs[i])
        /\ specs[i].md5 # NoMd5
        /\ ~ValidlyCached(specs[i], LineDist(specs[i]))
        /\ index'[LineDist(specs[i])] # Absent )
      =>
        LET s    == specs[i]
            dist == LineDist(s)
            info == index'[dist]
        IN  /\ info = None =>
                 /\ pc' = "loop" /\ i' = i + 1 /\ err' = NoError
                 /\ warned' = warned \cup {i}
                 /\ actions'[FETCH] = Append(actions[FETCH], dist)
                 /\ actions'[LINK] = Append(actions[LINK], dist)
            /\ (info # None /\ info # s.md5) =>
                 /\ pc' = "aborted"
                 /\ err' = "Error: MD5 in explicit files does not match index"
                 /\ actions'[FETCH] = actions[FETCH]
            /\ info = s.md5 =>
                 /\ pc' = "loop" /\ i' = i + 1 /\ err' = NoError
                 /\ warned' = warned
                 /\ actions'[FETCH] = Append(actions[FETCH], dist)
    ]_vars

C16_Witness ==
  /\ pc = "done"
  /\ warned = {1}
  /\ Len(specs) = 2
  /\ specs[2].md5 # NoMd5
  /\ Len(actions[FETCH]) = 2


\* the distributions linked in the source prefix that are not the package manager
NotConda == { d \in linkedA : name_dist(d) # "conda" }

\* C17: the distribution list clone_env hands to the dependency sort and to
\* the link plan is the list of the distributions linked in the source prefix
\* without those whose base name is conda, each once; no distribution named
\* conda is in the plan or linked into the destination by it.
C17_CondaNotCloned ==
  /\ clPc \in {"loop", "plan", "executed", "returned"} =>
       /\ SeqRange(dists) = NotConda
       /\ Len(dists) = Cardinality(NotConda)
  /\ clPc \in {"plan", "executed", "returned"} =>
       /\ SeqRange(clActions[LINK]) = NotConda
       /\ Len(clActions[LINK]) = Cardinality(NotConda)
  /\ \A d \in linkedB : name_dist(d) # "conda"

C17_Witness ==
  /\ clPc = "returned"
  /\ DistConda \in linkedA
  /\ DistFoo \in linkedA
  /\ linkedB = {DistFoo}
  /\ clReturn.actions[LINK] = <<DistFoo>>

\* the untracked files of the source that clone_env cannot read
Unread == { f \in UntrackedA : ~islink(treeA, f) /\ f \in unreadable }

\* C18: an untracked source file that cannot be read is skipped without
\* aborting: nothing is written for it, every other untracked file is still
\* processed, the link plan is still built and executed afterwards, and the
\* untracked-file set returned is the one computed from the source, the
\* skipped file included.
C18_UnreadableSkipped ==
  /\ \A f \in skipped : f \in Unread /\ treeB[f] = NoNode
  /\ clPc \in {"plan", "executed", "returned"} =>
       /\ skipped = Unread
       /\ \A f \in UntrackedA \ Unread : treeB[f].kind \in {"file", "symlink"}
  /\ clPc \in {"executed", "returned"} => linkedB = SeqRange(clActions[LINK])
  /\ clPc = "returned" =>
       /\ clReturn.called
       /\ clReturn.untracked = UntrackedA
       /\ skipped \subseteq clReturn.untracked
       /\ clReturn.actions = clActions

C18_Witness ==
  /\ clPc = "returned"
  /\ skipped = {<<"bin", "tool">>}
  /\ Cardinality(clReturn.untracked) >= 3
  /\ linkedB # {}


\* the symbolic links to directories that are under the prefix (every
\* directory above them exists) and outside the ignore set
DirLinks ==
  { p \in PathUniverse :
      /\ islink(treeA, p) /\ isdir(treeA, p)
      /\ \A a \in Ancestors(p) : isdir(treeA, a)
      /\ ~InIgnoreSet(p) }

Beneath(q, p) == Len(q) > Len(p) /\ SubSeq(q, 1, Len(p)) = p

\* C19: for every symbolic link to a directory under the prefix, at any depth
\* and outside the ignore set, walk_prefix records the link itself as one
\* entry and records no path beneath it.
C19_DirLinkIsOneEntry ==
  walkRes.called =>
    \A p \in DirLinks :
      /\ p \in walkRes.res
      /\ \A q \in walkRes.res : ~Beneath(q, p)

\* C20: whenever explicit() fetches a channel index for a line, the channel
\* label it passes is defined and was derived from that line's URL: the read
\* of schannel never fails and never yields the label an earlier line left.
C20_SchannelFromSameLine ==
  /\ err # "NameError: schannel"
  /\ \A n \in 1..Len(fetches) :
       /\ fetches[n].schannel # Unbound
       /\ fetches[n].from = fetches[n].line
       /\ fetches[n].schannel = url_channel(fetches[n].url)

====
